---------------------------- MODULE Spec2Model ----------------------------
(***************************************************************************)
(* Access control of the clinic application: the tab permission resolver   *)
(* (js/auth.js checkTabAccess), the per-user override editor               *)
(* (js/funcionarios.js saveUserPermissions), the custom role editor        *)
(* (js/funcionarios.js saveRole, deleteRole) and the session operations    *)
(* (js/auth.js login, logout, checkLogin, signUp and the auth listener).   *)
(*                                                                         *)
(* JavaScript values are represented as follows.                           *)
(*   null / a value        <<>> / <<v>>                                    *)
(*   tabAccess             [kind, map]: kind is "undefined", "null" or     *)
(*                         "object"; map gives for every tab id the stored *)
(*                         string, or Absent when the key is missing       *)
(*   changeHistory         [defined, entries]                              *)
(*   localStorage item     <<>> (no item) or <<[parsable, value]>>         *)
(*   provider session      <<>> (none) or <<id>> of the signed-in user     *)
(*   profile table         per registered id <<>> (no row) or <<row>>      *)
(***************************************************************************)
EXTENDS Integers, Sequences, FiniteSets, TLC

VARIABLES
    users,          \* db.users: user id -> user record
    roles,          \* db.roles: sequence of role records
    nextChangeId,   \* db.nextChangeId
    savedDb,        \* what saveDb() last persisted
    currentUser,    \* auth.js module variable currentUser
    localStorage,   \* localStorage item 'currentUser'
    lastOp,         \* the last operation run and the notification it showed
    probe,          \* the last permission check made and its results
    levelBefore,    \* history variable: the level a user had on a tab when an
                    \* override was last put on it (read by no operation)
    session,        \* the session the identity provider (supabase.auth) holds
    funcionarios,   \* the remote profile table read by getUserFuncionario
    handler         \* the auth listener's handler suspended at an await

authVars == << session, funcionarios, handler >>

vars ==
    << users, roles, nextChangeId, savedDb, currentUser, localStorage, lastOp, probe,
       levelBefore, session, funcionarios, handler >>

\* the runs that involve neither the identity provider nor the profile table
NoAuth == session = << >> /\ funcionarios = << >> /\ handler = << >>

---------------------------------------------------------------------------
(* Bounds of the model *)

\* a tabAccess map handed to the resolver holds at most this many keys
MaxOverrides == 1
\* saveUserPermissions is not explored once a target has this many history entries
MaxHistory == 2
\* saveRole does not create a role once db.roles has this many
MaxRoles == 2

---------------------------------------------------------------------------
(* Tab registry and role constants *)

\* funcionarios.js allSystemTabs (ids only; the labels play no part)
allSystemTabs ==
    << "cadastro", "agenda", "historico", "meus-pacientes", "financeiro",
       "relatorios", "estoque", "funcionarios", "documentos" >>

TabRegistry == { allSystemTabs[i] : i \in 1..Len(allSystemTabs) }

\* a tab id that is in no registry
UnknownTab == "inexistente"

TabIds == TabRegistry \cup {UnknownTab}

PROFESSIONAL_ROLES ==
    { "staff", "intern", "musictherapist", "receptionist", "psychologist",
      "psychopedagogue", "speech_therapist", "nutritionist", "physiotherapist" }

DIRECTOR_ONLY == { "director" }

\* roles.js ALL_USERS
ALL_USERS ==
    { "director", "coordinator_madre", "coordinator_floresta", "staff", "intern",
      "musictherapist", "financeiro", "receptionist", "psychologist",
      "psychopedagogue", "speech_therapist", "nutritionist", "physiotherapist" }

\* the table of checkTabAccess
defaultTabPermissions ==
    ( "cadastro" :>
        [ view |-> {"director", "coordinator", "professional", "staff", "receptionist"},
          edit |-> {"director", "coordinator", "receptionist"} ] )
    @@ ( "agenda" :>
        [ view |-> {"director", "coordinator", "professional", "staff", "receptionist"},
          edit |-> {"director", "coordinator", "professional", "receptionist"} ] )
    @@ ( "historico" :>
        [ view |-> {"director", "coordinator", "professional", "staff", "receptionist"},
          edit |-> {"director", "coordinator"} ] )
    @@ ( "meus-pacientes" :>
        [ view |-> PROFESSIONAL_ROLES, edit |-> PROFESSIONAL_ROLES ] )
    @@ ( "relatorios" :>
        [ view |-> {"director", "financeiro", "coordinator"}, edit |-> {"director"} ] )
    @@ ( "financeiro" :>
        [ view |-> {"director", "financeiro"}, edit |-> {"director", "financeiro"} ] )
    @@ ( "estoque" :>
        [ view |-> {"director", "financeiro", "staff", "coordinator"},
          edit |-> {"director", "financeiro", "coordinator"} ] )
    @@ ( "funcionarios" :>
        [ view |-> {"director", "coordinator"}, edit |-> {"director"} ] )
    @@ ( "documentos" :>
        [ view |-> {"director", "coordinator"}, edit |-> {"director", "coordinator"} ] )

---------------------------------------------------------------------------
(* Values *)

Absent == "absent"

Levels == { "none", "view", "edit" }

\* a stored string that is no access level
OtherValue == "total"

NoKeys == [ t \in TabIds |-> Absent ]

UndefinedAccess == [ kind |-> "undefined", map |-> NoKeys ]
NullAccess == [ kind |-> "null", map |-> NoKeys ]
ObjectAccess(m) == [ kind |-> "object", map |-> m ]

\* Object.keys of a tabAccess value that is an object
Keys(m) == { t \in TabIds : m[t] # Absent }

NoHistory == [ defined |-> FALSE, entries |-> << >> ]

User(id, role, access, history) ==
    [ id |-> id, role |-> role, tabAccess |-> access, changeHistory |-> history ]

\* JSON.stringify / JSON.parse of a user record: a key whose value is undefined
\* is left out of the text, and reads back as undefined
JSONstringify(u) == [ parsable |-> TRUE, value |-> u ]

\* JSON.parse: <<value>>, or <<>> when it throws
JSONparse(s) == IF s.parsable THEN << s.value >> ELSE << >>

---------------------------------------------------------------------------
(* auth.js *)

\* getCurrentUser falling back to a 'staff' guest when nobody is signed in
getCurrentUser_guest(cur, ls) ==
    IF cur # << >> THEN [ user |-> cur, currentUser |-> cur ]
    ELSE IF ls # << >> /\ JSONparse(ls[1]) # << >>
         THEN [ user |-> JSONparse(ls[1]), currentUser |-> JSONparse(ls[1]) ]
         ELSE [ user |-> << User(0, "staff", UndefinedAccess, NoHistory) >>,
                currentUser |-> cur ]

\* getCurrentUser: the user it returns, and the module variable afterwards
getCurrentUser(cur, ls) ==
    IF cur # << >> THEN [ user |-> cur, currentUser |-> cur ]
    ELSE IF ls # << >> /\ JSONparse(ls[1]) # << >>
         THEN [ user |-> JSONparse(ls[1]), currentUser |-> JSONparse(ls[1]) ]
         ELSE [ user |-> << >>, currentUser |-> cur ]

\* isRoleAllowed letting every signed-in user pass, as for 'authenticated'
isRoleAllowed_authenticated(allowedRoles, cur, ls) ==
    getCurrentUser(cur, ls).user # << >>

\* isRoleAllowed with an array of roles that does not hold 'authenticated'
isRoleAllowed(allowedRoles, cur, ls) ==
    LET user == getCurrentUser(cur, ls).user
    IN  /\ user # << >>
        /\ user[1].role \in allowedRoles

\* user.tabAccess && user.tabAccess[tabId]: the stored string, Absent when falsy
overrideOf(user, tabId) ==
    IF user.tabAccess.kind = "object" THEN user.tabAccess.map[tabId] ELSE Absent

\* step 2 with 'view' granted by an override of exactly 'view'
overrideGrants_viewExact(userAccessLevel, requiredAccess) ==
    IF requiredAccess = "view" THEN userAccessLevel = "view"
    ELSE userAccessLevel = "edit"

\* step 2 of checkTabAccess, for an override that is present
overrideGrants(userAccessLevel, requiredAccess) ==
    IF requiredAccess = "view" THEN userAccessLevel \in {"view", "edit"}
    ELSE userAccessLevel = "edit"

\* the table read with the view list for every level
requiredRoles_viewList(tabId, requiredAccess) ==
    IF requiredAccess \in {"view", "edit"} THEN defaultTabPermissions[tabId].view
    ELSE { }

\* defaultTabPermissions[tabId][requiredAccess] || []
requiredRoles(tabId, requiredAccess) ==
    IF requiredAccess = "view" THEN defaultTabPermissions[tabId].view
    ELSE IF requiredAccess = "edit" THEN defaultTabPermissions[tabId].edit
    ELSE { }

\* step 3 with a role that the list does not name treated as 'staff'
defaultGrants_staffFallback(tabId, requiredAccess, role) ==
    IF tabId \notin DOMAIN defaultTabPermissions THEN FALSE
    ELSE { role, "staff" } \cap requiredRoles(tabId, requiredAccess) # { }

\* step 3 of checkTabAccess
defaultGrants(tabId, requiredAccess, role) ==
    IF tabId \notin DOMAIN defaultTabPermissions THEN FALSE
    ELSE role \in requiredRoles(tabId, requiredAccess)

\* checkTabAccess with the override looked at before the director rule
checkTabAccess_overrideFirst(tabId, requiredAccess, user) ==
    IF overrideOf(user, tabId) # Absent /\ requiredAccess \in {"view", "edit"}
    THEN overrideGrants(overrideOf(user, tabId), requiredAccess)
    ELSE IF user.role = "director" THEN TRUE
         ELSE defaultGrants(tabId, requiredAccess, user.role)

\* checkTabAccess with an override of 'none' read as no override
checkTabAccess_noneIsDefault(tabId, requiredAccess, user) ==
    IF user.role = "director" THEN TRUE
    ELSE IF /\ overrideOf(user, tabId) \notin {Absent, "none"}
            /\ requiredAccess \in {"view", "edit"}
         THEN overrideGrants(overrideOf(user, tabId), requiredAccess)
         ELSE defaultGrants(tabId, requiredAccess, user.role)

\* checkTabAccess(tabId, requiredAccess, user) for a user that is not null
checkTabAccess(tabId, requiredAccess, user) ==
    IF user.role = "director" THEN TRUE
    ELSE IF overrideOf(user, tabId) # Absent /\ requiredAccess \in {"view", "edit"}
         THEN overrideGrants(overrideOf(user, tabId), requiredAccess)
         ELSE defaultGrants(tabId, requiredAccess, user.role)

\* a requiredAccess that names a property every object inherits from
\* Object.prototype: defaultTabPermissions[tabId][requiredAccess] is then a
\* function, which is truthy and has no includes()
InheritedAccess == "constructor"

\* checkTabAccess(tabId, requiredAccess, user) throws a TypeError at
\* requiredRoles.includes(user.role)
checkTabAccessThrows(tabId, requiredAccess, user) ==
    /\ user # << >>
    /\ user[1].role # "director"
    /\ tabId \in DOMAIN defaultTabPermissions
    /\ requiredAccess = InheritedAccess

\* checkTabAccess(tabId, requiredAccess, user) reaches its console.warn
checkTabAccessWarns(tabId, requiredAccess, user) ==
    /\ user # << >>
    /\ user[1].role # "director"
    /\ ~ (overrideOf(user[1], tabId) # Absent /\ requiredAccess \in {"view", "edit"})
    /\ tabId \notin DOMAIN defaultTabPermissions

\* checkTabAccess as called: userArg is <<>> when the caller passes no user
checkTabAccessCall(tabId, requiredAccess, userArg, cur, ls) ==
    LET user == IF userArg # << >> THEN userArg ELSE getCurrentUser(cur, ls).user
    IN  IF user = << >> THEN FALSE
        ELSE checkTabAccess(tabId, requiredAccess, user[1])

\* hasEditAccess
hasEditAccess(tabId, cur, ls) == checkTabAccessCall(tabId, "edit", << >>, cur, ls)


---------------------------------------------------------------------------
(* Inputs *)

\* tabAccess objects with at most n keys among tabs, with values among vals
RECURSIVE MapsUpTo(_, _, _)
MapsUpTo(n, tabs, vals) ==
    IF n = 0 THEN { NoKeys }
    ELSE LET smaller == MapsUpTo(n - 1, tabs, vals)
         IN  smaller \cup { [ m EXCEPT ![t] = v ] : m \in smaller, t \in tabs, v \in vals }

\* role ids given to users: those of ALL_USERS, the two ids that only the table
\* of checkTabAccess names, the ids saveRole derives for custom roles, and an
\* id that nothing defines
LegacyRoles == { "coordinator", "professional" }
CustomRoleIds == { "chefe", "coordinator" }
UnmappedRole == "intern_x"
RoleIds == ALL_USERS \cup LegacyRoles \cup CustomRoleIds \cup { UnmappedRole }

\* requiredAccess values: the two levels and a string that is neither
OtherAccess == "delete"

\* the user objects handed to checkTabAccess
ArgAccess ==
    { UndefinedAccess, NullAccess }
    \cup { ObjectAccess(m) : m \in MapsUpTo(MaxOverrides, TabIds, Levels \cup {OtherValue}) }

ArgUsers == { User(2, r, a, NoHistory) : r \in RoleIds, a \in ArgAccess }

\* the signed-in users of the resolver runs
SessionAccess ==
    { UndefinedAccess, NullAccess, ObjectAccess(NoKeys),
      ObjectAccess([ NoKeys EXCEPT !["financeiro"] = "none" ]),
      ObjectAccess([ NoKeys EXCEPT !["funcionarios"] = "edit" ]),
      ObjectAccess([ NoKeys EXCEPT ![UnknownTab] = "view" ]) }

SessionUsers ==
    { User(1, r, a, NoHistory) : r \in {"director", "financeiro", "staff"}, a \in SessionAccess }

Unparsable == [ parsable |-> FALSE, value |-> User(0, "", UndefinedAccess, NoHistory) ]

\* currentUser and the localStorage item: nobody signed in, a text that does
\* not parse, or a user held in memory, in localStorage or in both
Sessions ==
    { << << >>, << >> >>, << << >>, << Unparsable >> >> }
    \cup { << << u >>, << JSONstringify(u) >> >> : u \in SessionUsers }
    \cup { << << >>, << JSONstringify(u) >> >> : u \in SessionUsers }
    \cup { << << u >>, << >> >> : u \in SessionUsers }

NoProbe ==
    [ called |-> FALSE, tabId |-> UnknownTab, userArg |-> << >>, user |-> << >>,
      view |-> FALSE, edit |-> FALSE, other |-> FALSE, hasEdit |-> FALSE,
      raised |-> FALSE, warned |-> FALSE ]

\* the <select> elements of a permissions form: per registry tab 'default',
\* a level, or Missing when the element is not in the page
Missing == "missing"
AllDefault == [ t \in TabRegistry |-> "default" ]
NoForm == [ t \in TabRegistry |-> Missing ]

NoOp == [ op |-> "none", target |-> 0, roleId |-> "", outcome |-> "none", selection |-> NoForm ]

NoLevels == [ i \in {1, 2} |-> [ t \in TabRegistry |-> "unset" ] ]

Db(u, r, n) == [ users |-> u, roles |-> r, nextChangeId |-> n ]

---------------------------------------------------------------------------
(* The resolver on its own: one check per run, on inputs drawn at the start *)

\* the sessions under which a user argument is passed
ArgSessions ==
    { << << >>, << >> >>,
      << << >>, << JSONstringify(User(1, "staff", NullAccess, NoHistory)) >> >>,
      << << User(1, "director", UndefinedAccess, NoHistory) >>,
         << JSONstringify(User(1, "director", UndefinedAccess, NoHistory)) >> >> }

Pending(tabId, userArg) == [ NoProbe EXCEPT !.tabId = tabId, !.userArg = userArg ]

InitResolve ==
    /\ users = [ i \in {1, 2} |->
                   User(i, IF i = 1 THEN "director" ELSE "staff", UndefinedAccess, NoHistory) ]
    /\ roles = << >>
    /\ nextChangeId = 1
    /\ savedDb = Db(users, roles, nextChangeId)
    /\ lastOp = NoOp
    /\ levelBefore = NoLevels
    /\ NoAuth
    /\ \/ \E s \in Sessions, t \in TabIds :
            /\ currentUser = s[1]
            /\ localStorage = s[2]
            /\ probe = Pending(t, << >>)
       \/ \E s \in ArgSessions, t \in TabIds, u \in ArgUsers :
            /\ currentUser = s[1]
            /\ localStorage = s[2]
            /\ probe = Pending(t, << u >>)

\* checkTabAccess(tabId, 'view', userArg), checkTabAccess(tabId, 'edit', userArg),
\* checkTabAccess(tabId, OtherAccess, userArg), hasEditAccess(tabId) and
\* checkTabAccess(tabId, InheritedAccess, userArg); the first getCurrentUser of
\* a call without user may set currentUser; warned tells whether the 'view'
\* call wrote its warning to the console
Resolve(tabId, userArg) ==
    LET got == getCurrentUser(currentUser, localStorage)
        cur == IF userArg = << >> THEN got.currentUser ELSE currentUser
    IN  /\ probe' =
              [ called |-> TRUE, tabId |-> tabId, userArg |-> userArg,
                user |-> IF userArg # << >> THEN userArg ELSE got.user,
                view |-> checkTabAccessCall(tabId, "view", userArg, currentUser, localStorage),
                edit |-> checkTabAccessCall(tabId, "edit", userArg, cur, localStorage),
                other |-> checkTabAccessCall(tabId, OtherAccess, userArg, cur, localStorage),
                hasEdit |-> hasEditAccess(tabId, cur, localStorage),
                raised |-> checkTabAccessThrows(tabId, InheritedAccess,
                              IF userArg # << >> THEN userArg ELSE got.user),
                warned |-> checkTabAccessWarns(tabId, "view",
                              IF userArg # << >> THEN userArg ELSE got.user) ]
        /\ currentUser' = getCurrentUser(cur, localStorage).currentUser
        /\ UNCHANGED << users, roles, nextChangeId, savedDb, localStorage, lastOp,
                       levelBefore >>
        /\ UNCHANGED authVars

ResolveArg ==
    /\ ~ probe.called
    /\ probe.userArg # << >>
    /\ Resolve(probe.tabId, probe.userArg)

ResolveCurrent ==
    /\ ~ probe.called
    /\ probe.userArg = << >>
    /\ Resolve(probe.tabId, << >>)

NextResolve == ResolveArg \/ ResolveCurrent

SpecResolve == InitResolve /\ [][NextResolve]_vars


---------------------------------------------------------------------------
(* funcionarios.js: the permissions grid *)

\* the tab ids in the order of Array.prototype.sort
SortedTabIds ==
    << "agenda", "cadastro", "documentos", "estoque", "financeiro", "funcionarios",
       "historico", "inexistente", "meus-pacientes", "relatorios" >>

\* JSON.stringify(obj, Object.keys(obj).sort()): the keys in sorted order, each
\* with its value
accessString(m) ==
    LET present(t) == m[t] # Absent
        keys == SelectSeq(SortedTabIds, present)
    IN  [ i \in 1..Len(keys) |-> << keys[i], m[keys[i]] >> ]

\* user.tabAccess || {}
oldAccessObject(user) ==
    IF user.tabAccess.kind = "object" THEN user.tabAccess.map ELSE NoKeys

\* the loop over allSystemTabs with every selection kept, 'default' included
newTabAccess_keepsDefault(selection) ==
    [ t \in TabIds |->
        IF t \in TabRegistry /\ selection[t] # Missing THEN selection[t] ELSE Absent ]

\* the loop over allSystemTabs: the selections that are not 'default'
newTabAccess(selection) ==
    [ t \in TabIds |->
        IF t \in TabRegistry /\ selection[t] \notin {Missing, "default"}
        THEN selection[t] ELSE Absent ]

hasCustomAccess(selection) ==
    \E t \in TabRegistry : selection[t] \notin {Missing, "default"}

\* the new selections laid over the old object
storedTabAccess_merged(user, selection) ==
    ObjectAccess([ t \in TabIds |->
        IF newTabAccess(selection)[t] # Absent THEN newTabAccess(selection)[t]
        ELSE oldAccessObject(user)[t] ])

\* user.tabAccess = hasCustomAccess ? newTabAccess : null
storedTabAccess(user, selection) ==
    IF hasCustomAccess(selection) THEN ObjectAccess(newTabAccess(selection)) ELSE NullAccess

\* oldValue / newValue of the history entry
shownAccess(str) == [ roleDefault |-> str = << >>, text |-> str ]

\* the name of a user stands for the user: names are the ids here
nameOf(user) == user.id

\* the entry pushed on user.changeHistory
permissionChange(id, changedBy, oldStr, newStr) ==
    [ id |-> id, changedBy |-> changedBy, field |-> "Permissoes de Aba",
      oldValue |-> shownAccess(oldStr), newValue |-> shownAccess(newStr) ]

\* the effective level of a user on a tab
LevelOf(view, edit) == IF edit THEN "edit" ELSE IF view THEN "view" ELSE "none"
levelFor(user, tabId) ==
    LevelOf(checkTabAccess(tabId, "view", user), checkTabAccess(tabId, "edit", user))

\* levelBefore after user's tabAccess becomes access
noteLevels(user, access) ==
    [ levelBefore EXCEPT ![user.id] =
        [ t \in TabRegistry |->
            IF overrideOf(user, t) = Absent /\ overrideOf([ user EXCEPT !.tabAccess = access ], t) # Absent
            THEN levelFor(user, t)
            ELSE levelBefore[user.id][t] ] ]

\* the form is kept for the calls that save
Done(op, target, outcome, selection) ==
    [ op |-> op, target |-> target, roleId |-> "", outcome |-> outcome,
      selection |-> selection ]

\* saveUserPermissions(userId) with the grid's <select> elements as selection
saveUserPermissions(userId, selection) ==
    LET got == getCurrentUser(currentUser, localStorage)
        user == users[userId]
        newStr == accessString(newTabAccess(selection))
        oldStr == accessString(oldAccessObject(user))
        entry == permissionChange(nextChangeId, nameOf(got.user[1]), oldStr, newStr)
        saved == [ user EXCEPT
                     !.changeHistory =
                         [ defined |-> TRUE, entries |-> Append(@.entries, entry) ],
                     !.tabAccess = storedTabAccess(user, selection) ]
    IN  /\ currentUser' = got.currentUser
        /\ localStorage' = localStorage
        /\ probe' = probe
        /\ roles' = roles
        /\ IF ~ isRoleAllowed(DIRECTOR_ONLY, currentUser, localStorage)
           THEN /\ lastOp' = Done("saveUserPermissions", userId, "denied", NoForm)
                /\ UNCHANGED << users, nextChangeId, savedDb, levelBefore >>
           ELSE IF userId \notin DOMAIN users
           THEN /\ lastOp' = Done("saveUserPermissions", userId, "notFound", NoForm)
                /\ UNCHANGED << users, nextChangeId, savedDb, levelBefore >>
           ELSE IF user.id = got.user[1].id
           THEN /\ lastOp' = Done("saveUserPermissions", userId, "self", NoForm)
                /\ UNCHANGED << users, nextChangeId, savedDb, levelBefore >>
           ELSE IF newStr # oldStr
           THEN /\ Len(user.changeHistory.entries) < MaxHistory
                /\ users' = [ users EXCEPT ![userId] = saved ]
                /\ nextChangeId' = nextChangeId + 1
                /\ savedDb' = Db(users', roles', nextChangeId')
                /\ levelBefore' = noteLevels(user, saved.tabAccess)
                /\ lastOp' = Done("saveUserPermissions", userId, "saved", selection)
           ELSE /\ lastOp' = Done("saveUserPermissions", userId, "unchanged", NoForm)
                /\ UNCHANGED << users, nextChangeId, savedDb, levelBefore >>

---------------------------------------------------------------------------
(* The permissions grid at work *)

\* the tabs that the submitted forms move away from 'default'
FormTabs == { "financeiro", "cadastro", "funcionarios" }

\* the forms submitted: every tab at 'default', one tab at a level, two tabs
\* at a level each, or a page without the <select> elements
OneTabForms == { [ AllDefault EXCEPT ![t] = l ] : t \in FormTabs, l \in Levels }

TwoTabForms ==
    { [ AllDefault EXCEPT !["financeiro"] = "none", !["agenda"] = "edit" ],
      [ AllDefault EXCEPT !["cadastro"] = "view", !["funcionarios"] = "view" ] }

Forms == { AllDefault, NoForm } \cup OneTabForms \cup TwoTabForms

\* db.users at the start: a director and a second user
InitUsers ==
    { << User(1, "director", UndefinedAccess, NoHistory), User(2, r, a, NoHistory) >> :
        r \in { "director", "financeiro", "staff", "chefe" },
        a \in { UndefinedAccess, ObjectAccess(NoKeys),
                ObjectAccess([ NoKeys EXCEPT ![UnknownTab] = "view" ]) } }

\* the session at the start: nobody, or a user of db.users held in memory and
\* in localStorage, or in localStorage only
InitSessions(us) ==
    { << << >>, << >> >> }
    \cup { << << us[i] >>, << JSONstringify(us[i]) >> >> : i \in DOMAIN us }
    \cup { << << >>, << JSONstringify(us[1]) >> >> }

Init ==
    /\ users \in InitUsers
    /\ roles = << >>
    /\ nextChangeId = 1
    /\ savedDb = Db(users, roles, nextChangeId)
    /\ \E s \in InitSessions(users) : currentUser = s[1] /\ localStorage = s[2]
    /\ lastOp = NoOp
    /\ probe = NoProbe
    /\ levelBefore = NoLevels
    /\ NoAuth

SaveUserPermissions ==
    \* the ids of db.users and one that db.users does not hold
    \E userId \in DOMAIN users \cup { Len(users) + 1 }, selection \in Forms :
        saveUserPermissions(userId, selection) /\ UNCHANGED authVars

Next == SaveUserPermissions

Spec == Init /\ [][Next]_vars

---------------------------------------------------------------------------
(* funcionarios.js: the role editor *)

\* names are sequences of characters
LowerCase ==
    [ c \in { "C", "H", "E", "F", "D", "G" } |->
        CASE c = "C" -> "c" [] c = "H" -> "h" [] c = "E" -> "e"
          [] c = "F" -> "f" [] c = "D" -> "d" [] c = "G" -> "g" ]

\* String.prototype.toLowerCase, one character
toLowerCase(c) == IF c \in DOMAIN LowerCase THEN LowerCase[c] ELSE c

\* \s
isSpace(c) == c = " "

\* [\w-]
isWordOrDash(c) ==
    c \in { "a", "c", "d", "e", "f", "g", "h", "i", "n", "o", "r", "t", "1", "_", "-" }

\* String.prototype.trim
RECURSIVE trimStart(_)
trimStart(name) ==
    IF name # << >> /\ isSpace(Head(name)) THEN trimStart(Tail(name)) ELSE name

RECURSIVE trimEnd(_)
trimEnd(name) ==
    IF name # << >> /\ isSpace(name[Len(name)])
    THEN trimEnd(SubSeq(name, 1, Len(name) - 1)) ELSE name

trim(name) == trimEnd(trimStart(name))

\* the three steps of the id on characters: lower case, runs of spaces to one
\* underscore (inRun tells that the character before was a space), everything
\* but [\w-] dropped
RECURSIVE slug(_, _)
slug(name, inRun) ==
    IF name = << >> THEN ""
    ELSE LET c == toLowerCase(Head(name))
         IN  IF isSpace(c)
             THEN (IF inRun THEN "" ELSE "_") \o slug(Tail(name), TRUE)
             ELSE (IF isWordOrDash(c) THEN c ELSE "") \o slug(Tail(name), FALSE)

\* roleName.toLowerCase().replace(/\s+/g, '_').replace(/[^\w-]/g, '')
newRoleId(roleName) == slug(roleName, FALSE)

\* the ids that saveRole refuses besides those of db.roles
ReservedIds == { "director", "staff", "intern" }

\* the loop of saveRole over allSystemTabs: 'default' and 'none' leave no key
roleTabAccess(selection) ==
    [ t \in TabIds |->
        IF t \in TabRegistry /\ selection[t] \notin {Missing, "default", "none"}
        THEN selection[t] ELSE Absent ]

Role(id, name, access, isCustom) ==
    [ id |-> id, name |-> name, tabAccess |-> access, isCustom |-> isCustom ]

\* db.roles.find(r => r.id === roleId): its index, 0 when there is none
RECURSIVE findRole(_, _, _)
findRole(rs, roleId, i) ==
    IF i > Len(rs) THEN 0
    ELSE IF rs[i].id = roleId THEN i
    ELSE findRole(rs, roleId, i + 1)

RoleDone(op, roleId, outcome, selection) ==
    [ op |-> op, target |-> 0, roleId |-> roleId, outcome |-> outcome,
      selection |-> selection ]

\* db.roles.some(r => r.id === newRoleId) with the reserved ids left alone
idTaken_reservedOnly(rs, id) == id \in ReservedIds

\* db.roles.some(r => r.id === newRoleId) || [...].includes(newRoleId)
idTaken(rs, id) == findRole(rs, id, 1) # 0 \/ id \in ReservedIds

\* saveRole with the form's hidden id (empty when creating), its name field
\* and its <select> elements; with a hidden id that db.roles does not hold
\* ("noRole") no notification is shown and saveDb() runs all the same
saveRole(roleIdInput, nameInput, selection) ==
    LET roleName == trim(nameInput)
        access == roleTabAccess(selection)
        at == findRole(roles, roleIdInput, 1)
        id == newRoleId(roleName)
    IN  /\ UNCHANGED << users, nextChangeId, currentUser, localStorage, probe, levelBefore >>
        /\ IF roleName = << >>
           THEN /\ lastOp' = RoleDone("saveRole", roleIdInput, "noName", NoForm)
                /\ UNCHANGED << roles, savedDb >>
           ELSE IF roleIdInput # ""
           THEN /\ roles' =
                     IF at # 0
                     THEN [ roles EXCEPT ![at] = [ @ EXCEPT !.name = roleName, !.tabAccess = access ] ]
                     ELSE roles
                /\ savedDb' = Db(users', roles', nextChangeId')
                /\ lastOp' = IF at # 0
                             THEN RoleDone("saveRole", roleIdInput, "updated", NoForm)
                             ELSE RoleDone("saveRole", roleIdInput, "noRole", NoForm)
           ELSE IF idTaken(roles, id)
           THEN /\ lastOp' = RoleDone("saveRole", id, "exists", NoForm)
                /\ UNCHANGED << roles, savedDb >>
           ELSE /\ Len(roles) < MaxRoles
                /\ roles' = Append(roles, Role(id, roleName, access, TRUE))
                /\ savedDb' = Db(users', roles', nextChangeId')
                /\ lastOp' = RoleDone("saveRole", id, "created", NoForm)

\* deleteRole(roleId) with users holding the role moved to 'staff'
deleteRole_reassigns(roleId) ==
    LET keep(r) == r.id # roleId
    IN  /\ UNCHANGED << nextChangeId, currentUser, localStorage, probe, levelBefore >>
        /\ roles' = SelectSeq(roles, keep)
        /\ users' = [ i \in DOMAIN users |->
                        IF users[i].role = roleId THEN [ users[i] EXCEPT !.role = "staff" ]
                        ELSE users[i] ]
        /\ savedDb' = Db(users', roles', nextChangeId')
        /\ lastOp' = [ RoleDone("deleteRole", roleId, "deleted", NoForm) EXCEPT
                          !.target = Len(roles) - Len(roles') ]

\* deleteRole(roleId); the target of lastOp counts the records removed
deleteRole(roleId) ==
    LET keep(r) == r.id # roleId
    IN  /\ UNCHANGED << users, nextChangeId, currentUser, localStorage, probe, levelBefore >>
        /\ roles' = SelectSeq(roles, keep)
        /\ savedDb' = Db(users', roles', nextChangeId')
        /\ lastOp' = [ RoleDone("deleteRole", roleId, "deleted", NoForm) EXCEPT
                          !.target = Len(roles) - Len(roles') ]

---------------------------------------------------------------------------
(* The role editor at work *)

\* the names typed into the role form when a role is created
RoleNames ==
    { << >>,
      << " ", "C", "h", "e", "f", "e", " " >>,
      << "C", "H", "E", "F", "E", "!" >>,
      << "C", "o", "o", "r", "d", "i", "n", "a", "t", "o", "r" >>,
      << "D", "i", "r", "e", "c", "t", "o", "r" >>,
      << "F", "i", "n", "a", "n", "c", "e", "i", "r", "o" >> }

\* the names typed when a role is edited
NewNames ==
    { << >>,
      << " ", "C", "h", "e", "f", "e", " " >> }

\* the role forms submitted
RoleForms ==
    { AllDefault,
      [ AllDefault EXCEPT !["financeiro"] = "view", !["cadastro"] = "none" ] }

\* the ids a role form or a delete button carries
RoleIdInputs == { "chefe", "coordinator", "receptionist", "sem_cargo" }

\* db.roles at the start: empty, or holding a record that is not custom
InitRoles ==
    { << >>,
      << Role("receptionist", << "R", "e", "c" >>, NoKeys, FALSE) >> }

\* db.users of the role editor runs: a director and a user whose role is an
\* id that saveRole derives
InitRoleUsers ==
    { << User(1, "director", UndefinedAccess, NoHistory), User(2, r, a, NoHistory) >> :
        r \in { "chefe", "coordinator" },
        a \in { ObjectAccess([ NoKeys EXCEPT !["estoque"] = "none" ]) } }

InitRolesSpec ==
    /\ users \in InitRoleUsers
    /\ roles \in InitRoles
    /\ nextChangeId = 1
    /\ savedDb = Db(users, roles, nextChangeId)
    /\ \E i \in {1, 2} :
          currentUser = << users[i] >> /\ localStorage = << JSONstringify(users[i]) >>
    /\ lastOp = NoOp
    /\ probe = NoProbe
    /\ levelBefore = NoLevels
    /\ NoAuth

SaveRoleCreate ==
    \E nameInput \in RoleNames, selection \in RoleForms :
        saveRole("", nameInput, selection) /\ UNCHANGED authVars

SaveRoleUpdate ==
    \E roleIdInput \in RoleIdInputs, nameInput \in NewNames, selection \in RoleForms :
        saveRole(roleIdInput, nameInput, selection) /\ UNCHANGED authVars

DeleteRole == \E roleId \in RoleIdInputs : deleteRole(roleId) /\ UNCHANGED authVars

NextRoles == SaveRoleCreate \/ SaveRoleUpdate \/ DeleteRole

SpecRoles == InitRolesSpec /\ [][NextRoles]_vars

---------------------------------------------------------------------------
(* Properties of the resolver (under SpecResolve) *)

\* the user a finished check decided on, when there was one
Checked == probe.called /\ probe.user # << >>
CheckedUser == probe.user[1]
CheckedOverride == overrideOf(CheckedUser, probe.tabId)

\* the custom roles of db.roles
CustomIds == { roles[i].id : i \in { j \in 1..Len(roles) : roles[j].isCustom } }

\* C1: a director is granted view and edit on every tab of the registry,
\* whatever the tabAccess of the director holds
C1_DirectorAlwaysEdit ==
    (Checked /\ CheckedUser.role = "director" /\ probe.tabId \in TabRegistry)
        => (probe.view /\ probe.edit)

C1_Witness ==
    /\ Checked
    /\ CheckedUser.role = "director"
    /\ probe.tabId \in TabRegistry
    /\ CheckedOverride = "none"
    /\ probe.view /\ probe.edit

\* C2: for a user who is no director, an override of none, view or edit on a
\* tab of the registry is the effective level, whatever the role's default
C2_OverrideIsLevel ==
    (/\ Checked
     /\ CheckedUser.role # "director"
     /\ probe.tabId \in TabRegistry
     /\ CheckedOverride \in Levels)
        => /\ LevelOf(probe.view, probe.edit) = CheckedOverride
           /\ probe.view = (CheckedOverride \in {"view", "edit"})
           /\ probe.edit = (CheckedOverride = "edit")

\* an override of none on a tab the role edits by default
C2_Witness ==
    /\ Checked
    /\ CheckedUser.role = "financeiro"
    /\ probe.tabId = "financeiro"
    /\ CheckedOverride = "none"
    /\ ~ probe.view /\ ~ probe.edit

\* C3: edit access implies view access, for every user and tab id, and every
\* default edit list is within the view list of its tab
C3_EditImpliesView ==
    /\ probe.called => (probe.edit => probe.view)
    /\ \A t \in DOMAIN defaultTabPermissions :
          defaultTabPermissions[t].edit \subseteq defaultTabPermissions[t].view

C3_Witness ==
    /\ Checked
    /\ CheckedUser.role # "director"
    /\ CheckedOverride = "edit"
    /\ probe.edit /\ probe.view

\* the roles with a hard-coded default: those the table of checkTabAccess
\* names and those of ALL_USERS
BuiltInRoles ==
    ALL_USERS \cup UNION { defaultTabPermissions[t].view \cup defaultTabPermissions[t].edit :
                             t \in DOMAIN defaultTabPermissions }

\* what the table of checkTabAccess gives a role on a tab
TableLevel(role, tabId) ==
    IF role \in defaultTabPermissions[tabId].edit THEN "edit"
    ELSE IF role \in defaultTabPermissions[tabId].view THEN "view"
    ELSE "none"

\* role financeiro on tab financeiro: edit without override, view with an
\* override of view, none with an override of none
FinanceiroScenario ==
    (Checked /\ CheckedUser.role = "financeiro" /\ probe.tabId = "financeiro")
        => LevelOf(probe.view, probe.edit) =
              CASE CheckedOverride = Absent -> "edit"
                [] CheckedOverride = "view" -> "view"
                [] CheckedOverride = "edit" -> "edit"
                [] OTHER -> "none"

\* C4 as stated: without an override every built-in role gets edit when the
\* table lists it for edit, else view when the table lists it for view, else
\* none; with the financeiro scenario
C4_Original ==
    /\ (/\ Checked
        /\ CheckedUser.role \in BuiltInRoles
        /\ probe.tabId \in TabRegistry
        /\ CheckedOverride = Absent)
          => LevelOf(probe.view, probe.edit) = TableLevel(CheckedUser.role, probe.tabId)
    /\ FinanceiroScenario

\* C4: without an override a built-in role other than director gets edit when
\* the table lists it for edit, else view when the table lists it for view,
\* else none; with the financeiro scenario
C4_DefaultsFromTable ==
    /\ (/\ Checked
        /\ CheckedUser.role \in BuiltInRoles \ {"director"}
        /\ probe.tabId \in TabRegistry
        /\ CheckedOverride = Absent)
          => LevelOf(probe.view, probe.edit) = TableLevel(CheckedUser.role, probe.tabId)
    /\ FinanceiroScenario

\* a role that only views the tab by default, with an empty tabAccess object
C4_Witness ==
    /\ Checked
    /\ CheckedUser.role = "staff"
    /\ probe.tabId = "cadastro"
    /\ CheckedUser.tabAccess = ObjectAccess(NoKeys)
    /\ probe.view /\ ~ probe.edit

C7_NoUserDenied ==
    (/\ probe.called
     /\ probe.userArg = << >>
     /\ currentUser = << >>
     /\ localStorage = << >>)
        => (~ probe.view /\ ~ probe.edit /\ ~ probe.other /\ ~ probe.hasEdit)

C7_Witness ==
    /\ probe.called
    /\ probe.userArg = << >>
    /\ currentUser = << >>
    /\ localStorage = << >>
    /\ probe.tabId = "cadastro"
    /\ ~ probe.view

---------------------------------------------------------------------------
(* Properties of the permissions grid (under Spec) *)

Saved == lastOp.op = "saveUserPermissions" /\ lastOp.outcome = "saved"
Target == users[lastOp.target]

\* the tabs of a form whose selected level is not 'default'
Selected(selection) == { t \in TabRegistry : selection[t] \in Levels \cup {OtherValue} }

\* C9: when a save puts tab t of a user who is no director back at 'default'
\* after an override had been put on t, the user's level on t is the level
\* held before the override; and a tabAccess of {} or null resolves as a
\* tabAccess that is absent
C9_ClearRestoresLevel ==
    /\ Saved =>
          \A t \in TabRegistry :
             (/\ Target.role # "director"
              /\ lastOp.selection[t] = "default"
              /\ levelBefore[lastOp.target][t] # "unset")
                 => levelFor(Target, t) = levelBefore[lastOp.target][t]
    /\ \A i \in DOMAIN users :
          (/\ users[i].role # "director"
           /\ users[i].tabAccess \in { NullAccess, ObjectAccess(NoKeys) })
              => \A t \in TabIds, a \in {"view", "edit"} :
                     checkTabAccess(t, a, users[i])
                       = checkTabAccess(t, a, [ users[i] EXCEPT !.tabAccess = UndefinedAccess ])

\* role financeiro: an override on tab financeiro was set and then cleared,
\* the map is empty again and the level is edit as before
C9_Witness ==
    /\ Saved
    /\ Target.role = "financeiro"
    /\ lastOp.selection = AllDefault
    /\ levelBefore[lastOp.target]["financeiro"] = "edit"
    /\ Target.tabAccess = NullAccess
    /\ Len(Target.changeHistory.entries) = 2
    /\ levelFor(Target, "financeiro") = "edit"

\* C10: after a save the target's tabAccess holds exactly the registry tabs
\* whose selected level is not 'default', each with the selected level, and
\* is null when no tab is selected
C10_SavedAccessIsSelection ==
    Saved =>
       IF Selected(lastOp.selection) = { }
       THEN Target.tabAccess = NullAccess
       ELSE /\ Target.tabAccess.kind = "object"
            /\ Keys(Target.tabAccess.map) = Selected(lastOp.selection)
            /\ \A t \in Selected(lastOp.selection) :
                  Target.tabAccess.map[t] = lastOp.selection[t]

\* two tabs selected, on a target whose old map had another key
C10_Witness ==
    /\ Saved
    /\ Cardinality(Selected(lastOp.selection)) = 2
    /\ Keys(Target.tabAccess.map) = Selected(lastOp.selection)
    /\ Len(Target.changeHistory.entries) = 2

---------------------------------------------------------------------------
(* Properties of the role editor (under SpecRoles) *)

Created == lastOp.op = "saveRole" /\ lastOp.outcome = "created"
CreatedRole == roles[findRole(roles, lastOp.roleId, 1)]

\* what the matrix of a role gives on a tab: its entry, none without one
MatrixLevel(role, tabId) ==
    IF role.tabAccess[tabId] # Absent THEN role.tabAccess[tabId] ELSE "none"

\* C5: once saveRole has created a custom role with a matrix, every user
\* whose role is the id of that role and who has no override on a tab of the
\* registry has on that tab the level of the matrix, none without an entry
C5_CustomRoleMatrixResolves ==
    Created =>
       \A i \in DOMAIN users, t \in TabRegistry :
          (users[i].role = lastOp.roleId /\ overrideOf(users[i], t) = Absent)
             => levelFor(users[i], t) = MatrixLevel(CreatedRole, t)

---------------------------------------------------------------------------
(* Properties of the guards of the permissions grid (under Spec) *)

\* the user on whose behalf the next operation runs, <<>> when nobody is
\* signed in
Actor == getCurrentUser(currentUser, localStorage).user
ActorIsDirector == Actor # << >> /\ Actor[1].role = "director"

\* C11: a saveUserPermissions call made while the current user is no director,
\* or while nobody is signed in, is refused and leaves db.users (tabAccess and
\* changeHistory of every user), db.nextChangeId and the persisted database
\* as they were
C11_DeniedChangesNothing ==
    [][ (~ ActorIsDirector)
            => /\ lastOp'.outcome = "denied"
               /\ users' = users
               /\ nextChangeId' = nextChangeId
               /\ savedDb' = savedDb ]_vars

\* a signed-in user of role staff was refused
C11_Witness ==
    /\ lastOp.op = "saveUserPermissions"
    /\ lastOp.outcome = "denied"
    /\ currentUser # << >>
    /\ currentUser[1].role = "staff"
    /\ lastOp.target # currentUser[1].id

---------------------------------------------------------------------------
(* funcionarios.js: the employee edit form; auth.js: updateUserPassword *)

\* isEditingSelfAsDirector with the comparison of the ids left out
isEditingSelfAsDirector_anyDirector(funcionario, cur, ls) ==
    /\ funcionario.role = "director"
    /\ funcionario.id # getCurrentUser(cur, ls).user[1].id

\* funcionario.id === currentUser.id && isRoleAllowed(DIRECTOR_ONLY)
isEditingSelfAsDirector(funcionario, cur, ls) ==
    /\ funcionario.id = getCurrentUser(cur, ls).user[1].id
    /\ isRoleAllowed(DIRECTOR_ONLY, cur, ls)

\* the update with the row rebuilt from the form, which has no changeHistory
editedFuncionario_dropsHistory(funcionario, role) ==
    [ funcionario EXCEPT !.role = role, !.tabAccess = ObjectAccess(NoKeys),
                         !.changeHistory = NoHistory ]

\* the record after .update(updates) and .update({tabAccess: newTabAccess}):
\* the role of the form, and the newTabAccess object that no statement fills
editedFuncionario(funcionario, role) ==
    [ funcionario EXCEPT !.role = role, !.tabAccess = ObjectAccess(NoKeys) ]

\* saveFuncionarioChanges() with window.currentFuncionarioId and the role of
\* the form. isEditingSelfAsDirector and newTabAccess are declared inside the
\* try block and read after it: inScope tells whether the build lets the
\* later statements see them; when it does not, the read throws
saveFuncionarioChanges(funcionarioId, role, inScope) ==
    LET got == getCurrentUser(currentUser, localStorage)
        funcionario == users[funcionarioId]
    IN  /\ currentUser' = got.currentUser
        /\ UNCHANGED << roles, nextChangeId, localStorage, probe, levelBefore >>
        /\ IF ~ checkTabAccessCall("funcionarios", "edit", << >>, currentUser, localStorage)
           THEN /\ lastOp' = Done("saveFuncionarioChanges", funcionarioId, "denied", NoForm)
                /\ UNCHANGED << users, savedDb >>
           ELSE IF funcionarioId \notin DOMAIN users
           THEN /\ lastOp' = Done("saveFuncionarioChanges", funcionarioId, "error", NoForm)
                /\ UNCHANGED << users, savedDb >>
           ELSE IF ~ inScope
           THEN /\ lastOp' = Done("saveFuncionarioChanges", funcionarioId, "threw", NoForm)
                /\ UNCHANGED << users, savedDb >>
           ELSE IF isEditingSelfAsDirector(funcionario, got.currentUser, localStorage)
           THEN /\ lastOp' = Done("saveFuncionarioChanges", funcionarioId, "self", NoForm)
                /\ UNCHANGED << users, savedDb >>
           ELSE /\ users' = [ users EXCEPT ![funcionarioId] = editedFuncionario(funcionario, role) ]
                /\ savedDb' = Db(users', roles', nextChangeId')
                /\ lastOp' = Done("saveFuncionarioChanges", funcionarioId, "saved", NoForm)

\* saveUserPermissions(userId) of the second copy of the module: the same
\* guards and the same assignment, without the comparison with the old map
\* and without a changeHistory entry
saveUserPermissionsRewritten(userId, selection) ==
    LET got == getCurrentUser(currentUser, localStorage)
        user == users[userId]
        saved == [ user EXCEPT !.tabAccess = storedTabAccess(user, selection) ]
    IN  /\ currentUser' = got.currentUser
        /\ UNCHANGED << roles, nextChangeId, localStorage, probe >>
        /\ IF ~ isRoleAllowed(DIRECTOR_ONLY, currentUser, localStorage)
           THEN /\ lastOp' = Done("saveUserPermissions", userId, "denied", NoForm)
                /\ UNCHANGED << users, savedDb, levelBefore >>
           ELSE IF userId \notin DOMAIN users
           THEN /\ lastOp' = Done("saveUserPermissions", userId, "notFound", NoForm)
                /\ UNCHANGED << users, savedDb, levelBefore >>
           ELSE IF user.id = got.user[1].id
           THEN /\ lastOp' = Done("saveUserPermissions", userId, "self", NoForm)
                /\ UNCHANGED << users, savedDb, levelBefore >>
           ELSE /\ users' = [ users EXCEPT ![userId] = saved ]
                /\ savedDb' = Db(users', roles', nextChangeId')
                /\ levelBefore' = noteLevels(user, saved.tabAccess)
                /\ lastOp' = Done("saveUserPermissions", userId, "saved", selection)

\* Date.now()
DateNow == 1000

\* the entry updateUserPassword pushes
passwordChange(changedBy) ==
    [ id |-> DateNow, changedBy |-> changedBy, field |-> "password",
      oldValue |-> shownAccess(<< << "password", "********" >> >>),
      newValue |-> shownAccess(<< << "password", "********" >> >>) ]

\* updateUserPassword(userId, newPassword) with both arguments given;
\* updated tells whether supabase.auth.updateUser succeeded
updateUserPassword(userId, updated) ==
    LET got == getCurrentUser(currentUser, localStorage)
        allowed == /\ got.user # << >>
                   /\ \/ got.user[1].id = userId
                      \/ isRoleAllowed(DIRECTOR_ONLY, got.currentUser, localStorage)
        pushed == [ got.user[1] EXCEPT
                      !.changeHistory.entries = Append(@, passwordChange(nameOf(got.user[1]))) ]
    IN  /\ UNCHANGED << users, roles, nextChangeId, savedDb, probe, levelBefore >>
        /\ IF ~ allowed
           THEN /\ currentUser' = got.currentUser
                /\ localStorage' = localStorage
                /\ lastOp' = Done("updateUserPassword", userId, "denied", NoForm)
           ELSE IF ~ updated
           THEN /\ currentUser' = got.currentUser
                /\ localStorage' = localStorage
                /\ lastOp' = Done("updateUserPassword", userId, "error", NoForm)
           ELSE IF got.user[1].changeHistory.defined
           THEN /\ Len(got.user[1].changeHistory.entries) < MaxHistory
                /\ currentUser' = << pushed >>
                /\ localStorage' = << JSONstringify(pushed) >>
                /\ lastOp' = Done("updateUserPassword", userId, "saved", NoForm)
           ELSE /\ currentUser' = got.currentUser
                /\ localStorage' = localStorage
                /\ lastOp' = Done("updateUserPassword", userId, "saved", NoForm)

---------------------------------------------------------------------------
(* The employee forms at work *)

EmptyHistory == [ defined |-> TRUE, entries |-> << >> ]

\* db.users at the start: a director and a second user who may edit the
\* employees tab through an override
InitEditUsers ==
    { << User(1, "director", UndefinedAccess, h), User(2, r, a, NoHistory) >> :
        h \in { NoHistory, EmptyHistory },
        r \in { "director", "staff" },
        a \in { UndefinedAccess, ObjectAccess([ NoKeys EXCEPT !["funcionarios"] = "edit" ]) } }

InitEdit ==
    /\ users \in InitEditUsers
    /\ roles = << >>
    /\ nextChangeId = 1
    /\ savedDb = Db(users, roles, nextChangeId)
    /\ \E s \in InitSessions(users) : currentUser = s[1] /\ localStorage = s[2]
    /\ lastOp = NoOp
    /\ probe = NoProbe
    /\ levelBefore = NoLevels
    /\ NoAuth

\* the forms of the permissions grid submitted in these runs
EditForms == { AllDefault, [ AllDefault EXCEPT !["financeiro"] = "view" ] }

SaveUserPermissionsEdit ==
    \E userId \in DOMAIN users, selection \in EditForms :
        saveUserPermissions(userId, selection) /\ UNCHANGED authVars

SaveUserPermissionsRewritten ==
    \E userId \in DOMAIN users, selection \in EditForms :
        saveUserPermissionsRewritten(userId, selection) /\ UNCHANGED authVars

SaveFuncionarioChanges ==
    \E funcionarioId \in DOMAIN users \cup { Len(users) + 1 },
       role \in { "staff", "financeiro" }, inScope \in BOOLEAN :
        saveFuncionarioChanges(funcionarioId, role, inScope) /\ UNCHANGED authVars

UpdateUserPassword ==
    \E userId \in DOMAIN users, updated \in BOOLEAN :
        updateUserPassword(userId, updated) /\ UNCHANGED authVars

NextEdit ==
    \/ SaveUserPermissionsEdit
    \/ SaveUserPermissionsRewritten
    \/ SaveFuncionarioChanges
    \/ UpdateUserPassword

SpecEdit == InitEdit /\ [][NextEdit]_vars

---------------------------------------------------------------------------
(* Properties of the employee forms (under SpecEdit) *)

C19_OneEntryPerChange ==
    [][ (/\ lastOp'.op = "saveUserPermissions"
         /\ lastOp'.outcome \in { "saved", "unchanged" })
            => LET before == users[lastOp'.target]
                   after == users'[lastOp'.target]
                   entries == after.changeHistory.entries
               IN  IF oldAccessObject(after) # oldAccessObject(before)
                   THEN /\ after.changeHistory.defined
                        /\ Len(entries) = Len(before.changeHistory.entries) + 1
                        /\ SubSeq(entries, 1, Len(entries) - 1) = before.changeHistory.entries
                        /\ entries[Len(entries)].oldValue
                              = shownAccess(accessString(oldAccessObject(before)))
                        /\ entries[Len(entries)].newValue
                              = shownAccess(accessString(oldAccessObject(after)))
                   ELSE /\ after.changeHistory = before.changeHistory
                        /\ nextChangeId' = nextChangeId ]_vars

IsPrefix(a, b) == Len(a) <= Len(b) /\ SubSeq(b, 1, Len(a)) = a

---------------------------------------------------------------------------
(* Properties of the role editor's operations (under SpecRoles) *)

RoleIdsOf(rs) == { rs[i].id : i \in DOMAIN rs }

\* C13: a saveRole or deleteRole call made while the current user is no
\* director leaves db.roles and the persisted database as they were
C13_RoleOpsNeedDirector ==
    [][ (~ ActorIsDirector) => (roles' = roles /\ savedDb' = savedDb) ]_vars

\* no two records of db.roles have the same id
UniqueRoleIds == \A i, j \in DOMAIN roles : roles[i].id = roles[j].id => i = j

C15_NoCustomBuiltInId ==
    \A i \in DOMAIN roles : roles[i].isCustom => roles[i].id \notin ALL_USERS

\* the custom role that db.roles holds under an id, as a set of indexes
CustomAt(rs, id) == { i \in DOMAIN rs : rs[i].id = id /\ rs[i].isCustom }

\* C16: a saveRole call in edit mode changes the name and the tabAccess of
\* the custom role with the given id and nothing else of db.roles; when no
\* custom role has that id, it shows an error and leaves db.roles and the
\* persisted database as they were
C16_UpdateTouchesOneRole ==
    [][ (lastOp'.op = "saveRole" /\ lastOp'.outcome \in { "updated", "noRole" })
            => IF CustomAt(roles, lastOp'.roleId) # { }
               THEN /\ Len(roles') = Len(roles)
                    /\ \A i \in DOMAIN roles :
                          /\ roles'[i].id = roles[i].id
                          /\ roles'[i].isCustom = roles[i].isCustom
                          /\ i \notin CustomAt(roles, lastOp'.roleId) => roles'[i] = roles[i]
               ELSE /\ roles' = roles
                    /\ savedDb' = savedDb
                    /\ lastOp'.outcome \notin { "updated", "noRole" } ]_vars

\* C17: deleteRole removes the records with the given id from db.roles, keeps
\* every other record as it was and in its place, and changes no user
C17_DeleteRemovesOnlyTheRole ==
    [][ lastOp'.op = "deleteRole"
            => LET others(r) == r.id # lastOp'.roleId
               IN  /\ roles' = SelectSeq(roles, others)
                   /\ users' = users
                   /\ nextChangeId' = nextChangeId ]_vars

\* the role 'chefe' was removed while user 2 holds it; another record stays
C17_Witness ==
    /\ lastOp.op = "deleteRole"
    /\ lastOp.roleId = "chefe"
    /\ lastOp.target = 1
    /\ users[2].role = "chefe"
    /\ Len(roles) = 1
    /\ roles[1].id # "chefe"

\* C18: once deleteRole has removed a custom role, every user who holds its
\* id has neither view nor edit on any tab of the registry
C18_DeletedRoleResolvesNone ==
    (/\ lastOp.op = "deleteRole"
     /\ lastOp.target >= 1
     /\ lastOp.roleId \in CustomRoleIds)
        => \A i \in DOMAIN users, t \in TabRegistry :
              users[i].role = lastOp.roleId => levelFor(users[i], t) = "none"


---------------------------------------------------------------------------
(* The resolver's effects, exceptions and diagnostics (SpecResolve) *)

\* C23: checkTabAccess and hasEditAccess are side-effect-free: a call leaves
\* the module variable currentUser, localStorage, db.users and db.roles as they
\* were, with or without a user argument.
C23_ResolverChangesNothing ==
    [][ (~ probe.called /\ probe'.called)
          => /\ currentUser' = currentUser
             /\ localStorage' = localStorage
             /\ users' = users
             /\ roles' = roles ]_vars

\* C24: the resolver never raises: for every user value, tab id and requested
\* access level checkTabAccess returns a boolean, and it returns false when the
\* requested level is neither 'view' nor 'edit' and the user is no director.
C24_ResolverNeverRaises ==
    probe.called =>
        /\ ~ probe.raised
        /\ { probe.view, probe.edit, probe.other, probe.hasEdit } \subseteq BOOLEAN
        /\ (probe.user = << >> \/ probe.user[1].role # "director") => ~ probe.other

\* C25: whenever resolution degrades to none because the role of the user is
\* neither a built-in role nor an existing custom role, the same call emits a
\* diagnostic.
C25_UnmappedRoleWarned ==
    ( /\ probe.called
      /\ probe.user # << >>
      /\ probe.user[1].role \notin BuiltInRoles \cup { r.id : r \in { roles[i] : i \in DOMAIN roles } }
      /\ overrideOf(probe.user[1], probe.tabId) = Absent
      /\ ~ probe.view )
        => probe.warned


---------------------------------------------------------------------------
(* updateUserPassword (under SpecEdit) *)

\* the caller may change the password of the user the last operation named
MayUpdatePassword ==
    /\ Actor # << >>
    /\ \/ Actor[1].id = lastOp'.target
       \/ Actor[1].role = "director"

\* C29: updateUserPassword calls the provider's password update (outcomes
\* 'error' and 'saved') only when the current user is the user named or has
\* role 'director'; for any other caller, and with nobody signed in, it
\* returns success false without a password update and appends nothing to any
\* changeHistory.
C29_PasswordUpdateGuarded ==
    [][ lastOp'.op = "updateUserPassword"
          => /\ lastOp'.outcome \in { "error", "saved" } => MayUpdatePassword
             /\ ~ MayUpdatePassword
                  => /\ lastOp'.outcome = "denied"
                     /\ users' = users
                     /\ savedDb' = savedDb
                     /\ localStorage' = localStorage
                     /\ getCurrentUser(currentUser', localStorage').user = Actor ]_vars

\* a signed-in user of role staff was refused the password of another user
C29_Witness ==
    /\ lastOp.op = "updateUserPassword"
    /\ lastOp.outcome = "denied"
    /\ currentUser # << >>
    /\ currentUser[1].role = "staff"
    /\ lastOp.target # currentUser[1].id


---------------------------------------------------------------------------
(* auth.js: the session operations login, logout, checkLogin, signUp and the
   auth listener of initAuth; supabase.js: getUserFuncionario *)

\* signUp is not explored once the profile table has this many rows
MaxProfiles == 4

\* a row of the profile table; an empty role stands for a role that is
\* undefined, null or ''
Profile(role) == [ role |-> role, tabAccess |-> UndefinedAccess ]

\* the object {} that getUserFuncionario returns for a failed query
EmptyObject == Profile("")

\* the users registered with the identity provider
AuthIds == DOMAIN funcionarios

\* getUserFuncionario(userId): the row, or {} when .single() reports an error
\* because no row has that id; <<>> stands for a falsy result
getUserFuncionario(userId) ==
    IF funcionarios[userId] # << >> THEN funcionarios[userId] ELSE << EmptyObject >>

\* the session user with the role of the profile taken as it is
sessionUser_profileRole(id, funcionario) ==
    User(id, funcionario.role, funcionario.tabAccess, NoHistory)

\* {...user, ...funcionario, role: funcionario.role || 'staff'}
sessionUser(id, funcionario) ==
    User(id, IF funcionario.role # "" THEN funcionario.role ELSE "staff",
         funcionario.tabAccess, NoHistory)

\* the suspended handler after a sign-out, and after a new sign-in
overtaken(h, signedOut) ==
    IF h = << >> THEN h ELSE << [ h[1] EXCEPT !.signedOut = signedOut ] >>

AuthDone(op, target, outcome) == Done(op, target, outcome, NoForm)

\* the body of logout(): signedOut tells whether supabase.auth.signOut()
\* returned without error
logoutBody(signedOut) ==
    IF signedOut
    THEN /\ session' = << >>
         /\ currentUser' = << >>
         /\ localStorage' = << >>
    ELSE UNCHANGED << session, currentUser, localStorage >>

\* logout()
logout(signedOut) ==
    /\ logoutBody(signedOut)
    /\ handler' = IF signedOut THEN overtaken(handler, TRUE) ELSE handler
    /\ lastOp' = AuthDone("logout", 0, IF signedOut THEN "success" ELSE "failed")
    /\ UNCHANGED << users, roles, nextChangeId, savedDb, probe, levelBefore, funcionarios >>

\* login(email, password): credentials is 'missing' when an argument is
\* empty, 'rejected' when signInWithPassword returns an error, and 'valid'
\* when it returns the registered user id
login(id, credentials) ==
    LET funcionario == getUserFuncionario(id)
        user == sessionUser(id, funcionario[1])
    IN  /\ UNCHANGED << users, roles, nextChangeId, savedDb, probe, levelBefore, funcionarios >>
        /\ IF credentials # "valid"
           THEN /\ lastOp' = AuthDone("login", id, "failed")
                /\ UNCHANGED << session, currentUser, localStorage, handler >>
           ELSE IF funcionario = << >>
           \* the lookup by email finds no row either
           THEN /\ session' = << id >>
                /\ lastOp' = AuthDone("login", id, "failed")
                /\ handler' = overtaken(handler, FALSE)
                /\ UNCHANGED << currentUser, localStorage >>
           ELSE /\ session' = << id >>
                /\ currentUser' = << user >>
                /\ localStorage' = << JSONstringify(user) >>
                /\ handler' = overtaken(handler, FALSE)
                /\ lastOp' = AuthDone("login", id, "success")

\* checkLogin(): sessionError tells whether supabase.auth.getSession()
\* returned an error
checkLogin(sessionError) ==
    LET stored == IF localStorage = << >> THEN << >> ELSE JSONparse(localStorage[1])
        funcionario == getUserFuncionario(session[1])
        user == sessionUser(session[1], funcionario[1])
    IN  /\ UNCHANGED << users, roles, nextChangeId, savedDb, probe, levelBefore, funcionarios >>
        /\ IF localStorage # << >>
           THEN /\ UNCHANGED << session, localStorage, handler >>
                /\ IF stored # << >>
                   THEN /\ currentUser' = stored
                        /\ lastOp' = AuthDone("checkLogin", stored[1].id, "authenticated")
                   ELSE /\ currentUser' = currentUser
                        /\ lastOp' = AuthDone("checkLogin", 0, "error")
           ELSE IF sessionError \/ session = << >>
           THEN /\ lastOp' = AuthDone("checkLogin", 0, "anonymous")
                /\ UNCHANGED << session, currentUser, localStorage, handler >>
           ELSE IF funcionario = << >>
           THEN /\ \E signedOut \in BOOLEAN :
                     /\ logoutBody(signedOut)
                     /\ handler' = IF signedOut THEN overtaken(handler, TRUE) ELSE handler
                /\ lastOp' = AuthDone("checkLogin", 0, "anonymous")
           ELSE /\ currentUser' = << user >>
                /\ localStorage' = << JSONstringify(user) >>
                /\ lastOp' = AuthDone("checkLogin", session[1], "authenticated")
                /\ UNCHANGED << session, handler >>

\* signUp(email, password, {role}) with both credentials given: created tells
\* whether supabase.auth.signUp and the insert of the profile row succeeded,
\* confirmed whether the provider opens a session for the new user at once
signUp(role, created, confirmed) ==
    LET id == Len(funcionarios) + 1
        funcionario == Profile(IF role # "" THEN role ELSE "staff")
        user == sessionUser(id, funcionario)
    IN  /\ UNCHANGED << users, roles, nextChangeId, savedDb, probe, levelBefore >>
        /\ IF ~ created
           THEN /\ lastOp' = AuthDone("signUp", 0, "failed")
                /\ UNCHANGED << session, currentUser, localStorage, handler, funcionarios >>
           ELSE /\ Len(funcionarios) < MaxProfiles
                /\ funcionarios' = Append(funcionarios, << funcionario >>)
                /\ session' = IF confirmed THEN << id >> ELSE session
                /\ currentUser' = << user >>
                /\ localStorage' = << JSONstringify(user) >>
                /\ handler' = overtaken(handler, FALSE)
                /\ lastOp' = AuthDone("signUp", id, "success")

\* the listener called with SIGNED_IN or INITIAL_SESSION and a session that
\* has a user: it runs up to `await getUserFuncionario(session.user.id)`
listenerSignedIn ==
    /\ session # << >>
    /\ handler = << >>
    /\ handler' = << [ user |-> session[1], signedOut |-> FALSE ] >>
    /\ lastOp' = AuthDone("onAuthStateChange", session[1], "suspended")
    /\ UNCHANGED << users, roles, nextChangeId, savedDb, probe, levelBefore, funcionarios,
                   session, currentUser, localStorage >>

\* the rest of that call, once the profile query has answered
listenerResume ==
    LET id == handler[1].user
        funcionario == getUserFuncionario(id)
        user == sessionUser(id, funcionario[1])
    IN  /\ handler # << >>
        /\ handler' = << >>
        /\ UNCHANGED << users, roles, nextChangeId, savedDb, probe, levelBefore, funcionarios >>
        /\ IF funcionario = << >>
           THEN /\ \E signedOut \in BOOLEAN : logoutBody(signedOut)
                /\ lastOp' = AuthDone("onAuthStateChange", id, "noProfile")
           ELSE /\ currentUser' = << user >>
                /\ localStorage' = << JSONstringify(user) >>
                /\ lastOp' = AuthDone("onAuthStateChange", id, "installed")
                /\ UNCHANGED session

\* the listener called with SIGNED_OUT, which the provider sends when it
\* holds no session
listenerSignedOut ==
    /\ session = << >>
    /\ currentUser' = << >>
    /\ localStorage' = << >>
    /\ handler' = overtaken(handler, TRUE)
    /\ lastOp' = AuthDone("onAuthStateChange", 0, "signedOut")
    /\ UNCHANGED << users, roles, nextChangeId, savedDb, probe, levelBefore, funcionarios,
                   session >>

---------------------------------------------------------------------------
(* The session operations at work *)

\* the profile table at the start: a director, a second user whose row has a
\* role or none, and a registered user without a row
InitFuncionarios ==
    { << << Profile("director") >>, << Profile(r) >>, << >> >> : r \in { "", "financeiro" } }

\* a page that has just loaded with nothing stored
InitAuth ==
    /\ users = [ i \in {1, 2} |->
                   User(i, IF i = 1 THEN "director" ELSE "staff", UndefinedAccess, NoHistory) ]
    /\ roles = << >>
    /\ nextChangeId = 1
    /\ savedDb = Db(users, roles, nextChangeId)
    /\ currentUser = << >>
    /\ localStorage = << >>
    /\ lastOp = NoOp
    /\ probe = NoProbe
    /\ levelBefore = NoLevels
    /\ session = << >>
    /\ funcionarios \in InitFuncionarios
    /\ handler = << >>

Login == \E id \in AuthIds, credentials \in { "missing", "rejected", "valid" } : login(id, credentials)

Logout == \E signedOut \in BOOLEAN : logout(signedOut)

CheckLogin == \E sessionError \in BOOLEAN : checkLogin(sessionError)

SignUp == \E role \in { "", "financeiro" }, created, confirmed \in BOOLEAN : signUp(role, created, confirmed)

ListenerSignedIn == listenerSignedIn

ListenerResume == listenerResume

ListenerSignedOut == listenerSignedOut

NextAuth ==
    \/ Login
    \/ Logout
    \/ CheckLogin
    \/ SignUp
    \/ ListenerSignedIn
    \/ ListenerResume
    \/ ListenerSignedOut

SpecAuth == InitAuth /\ [][NextAuth]_vars

\* the types of the session state
AuthTypeOK ==
    /\ session \in { << >> } \cup { << i >> : i \in AuthIds }
    /\ handler = << >> \/ handler[1].user \in AuthIds


---------------------------------------------------------------------------
(* Properties of the session operations (under SpecAuth) *)

\* the step is the resumption of the suspended listener call
Resumed == handler # << >> /\ handler' = << >>

\* C21: when the listener receives SIGNED_IN or INITIAL_SESSION for a session
\* whose profile row does not exist or cannot be fetched, the user is treated
\* as unauthenticated: after the handler has finished currentUser is null and
\* no 'currentUser' item is stored; the user is not installed with a fallback
\* role.
C21_NoProfileNotInstalled ==
    [][ (Resumed /\ funcionarios[handler[1].user] = << >>)
          => /\ currentUser' = << >>
             /\ localStorage' = << >> ]_vars

\* C26: sign-out wins over a sign-in in flight: when a SIGNED_OUT event or a
\* successful logout was processed while the listener call was suspended, and
\* no new sign-in has happened since, then after the call has resumed and
\* finished currentUser is null and no 'currentUser' item is stored.
C26_SignOutWins ==
    [][ (Resumed /\ handler[1].signedOut)
          => /\ currentUser' = << >>
             /\ localStorage' = << >> ]_vars

\* C27: checkLogin reports isAuthenticated = true, and installs currentUser,
\* only when the identity provider holds a session for that user.
C27_AuthenticatedNeedsSession ==
    (lastOp.op = "checkLogin" /\ lastOp.outcome = "authenticated")
        => /\ session # << >>
           /\ session[1] = lastOp.target

\* C28: a failed login (credentials missing or rejected, no profile found)
\* returns success false and leaves currentUser and the stored item as they
\* were; both are set, to the same user, only on the success path.
C28_FailedLoginChangesNothing ==
    [][ lastOp'.op = "login"
          => /\ funcionarios[lastOp'.target] = << >> => lastOp'.outcome = "failed"
             /\ lastOp'.outcome = "failed"
                  => currentUser' = currentUser /\ localStorage' = localStorage
             /\ lastOp'.outcome = "success"
                  => /\ currentUser' # << >>
                     /\ localStorage' = << JSONstringify(currentUser'[1]) >> ]_vars

\* the role a profile row gives, '' when there is no row or the row has none
ProfileRole(id) == IF funcionarios[id] = << >> THEN "" ELSE funcionarios[id][1].role

---------------------------------------------------------------------------
(* The permission editor and the session snapshot together *)

\* db.users holds the two users of the profile table, with the roles their
\* sessions get
InitSnapshot ==
    /\ funcionarios \in InitFuncionarios
    /\ users = [ i \in {1, 2} |-> sessionUser(i, getUserFuncionario(i)[1]) ]
    /\ roles = << >>
    /\ nextChangeId = 1
    /\ savedDb = Db(users, roles, nextChangeId)
    /\ currentUser = << >>
    /\ localStorage = << >>
    /\ lastOp = NoOp
    /\ probe = NoProbe
    /\ levelBefore = NoLevels
    /\ session = << >>
    /\ handler = << >>

\* the tabs checked in these runs
SnapshotTabs == { "financeiro", "agenda" }

\* one checkTabAccess(tabId) without a user argument, at any moment of a run
CheckCurrent ==
    /\ ~ probe.called
    /\ \E tabId \in SnapshotTabs : Resolve(tabId, << >>)

NextSnapshot ==
    \/ SaveUserPermissionsEdit
    \/ Login
    \/ Logout
    \/ CheckCurrent

SpecSnapshot == InitSnapshot /\ [][NextSnapshot]_vars

\* saveUserPermissions has completed for the user with this id
PermissionsSaved(id) ==
    /\ id \in DOMAIN users
    /\ users[id].changeHistory.entries # << >>

\* C22: the resolver holds no cache: once saveUserPermissions has completed
\* for a user, every later permission check made for that user, also the
\* check without a user argument in the session of that user, decides by the
\* override map that db.users now holds for the user.
C22_ChecksFollowSavedMap ==
    [][ ( /\ ~ probe.called
          /\ probe'.called
          /\ probe'.user # << >>
          /\ PermissionsSaved(probe'.user[1].id) )
          => /\ probe'.view = checkTabAccess(probe'.tabId, "view", users[probe'.user[1].id])
             /\ probe'.edit = checkTabAccess(probe'.tabId, "edit", users[probe'.user[1].id]) ]_vars

=============================================================================
